---- MODULE Spec2Model ----
(***************************************************************************)
(* WattpadDownloader: the download pipeline of src/api/src/main.py and the *)
(* create_book package (remote client, image resolver, normalizer,        *)
(* biography truncation, container generator).                             *)
(*                                                                         *)
(*   Spec        the orchestrator (handle_download, download_story,        *)
(*               download_list) under RequestCancelledMiddleware           *)
(*   SpecRetry   one outbound call of the remote client, attempt by        *)
(*               attempt, under its retry policy                           *)
(*   SpecCache   two callers fetching through the response cache of the    *)
(*               remote client, while time passes and the content changes  *)
(*   SpecImages  parser.fetch_tree_images on one chapter tree              *)
(*   SpecNormalize  parser.clean_tree on one chapter's markup              *)
(*   SpecTrim    utils.smart_trim on one biography                         *)
(*   SpecEpub    generators/epub.py on one Work, from its metadata to the  *)
(*               spine                                                     *)
(*   SpecPdf     generators/pdf.py on one Work, from its construction to   *)
(*               its dump                                                  *)
(*   SpecStream  Spec, with the response body resumed by the event loop    *)
(*   SpecConcurrent  two requests in flight at once under the middleware   *)
(***************************************************************************)
EXTENDS Integers, Sequences, FiniteSets, TLC

\* ------------------------------------------------------------- bounds
MaxParts == 2       \* parts of one Work
MaxImgs == 1        \* image nodes of one chapter tree, as the orchestrator sees them
MaxStories == 2     \* members of one reading list
MaxChunks == 2      \* chunks of one generated buffer
MaxDur == 2         \* seconds one network attempt may take
MaxImageNodes == 4  \* image nodes of the chapter tree the resolver is run on
MaxTicks == 3       \* half expiry windows the clock runs for
MaxInline == 3      \* inline children of one chapter's markup, all wrappers together
MaxChapters == 2    \* parts of the Work a container is made from
MaxRuns == 2        \* runs of add_chapters on one generator
MaxSrcs == 2        \* image nodes of the trees of one Work, all trees together
MaxLen == 5         \* characters of a biography
MaxCap == 9         \* largest small value of smart_trim's max_length
MaxVersions == 2    \* versions of the remote content

VARIABLES
    PDFS_ENABLED,   \* main.py:44, the deployment flag
    req,            \* request id -> the state of its handler task and poller
    call,           \* one outbound call of the remote client and its retries
    USE_CACHE,      \* config.py, Config.USE_CACHE
    cache,          \* create_book.py:27-38, the shared response cache: key -> entry
    clock,          \* seconds since the service started
    remote,         \* the version of the content the remote API serves now
    fetches,        \* caller -> the fetch it is in, or the last one it made
    resolver,       \* one run of parser.fetch_tree_images
    norm,           \* one run of parser.clean_tree
    trim,           \* one run of utils.smart_trim
    book            \* one EPUBGenerator

clientVars == <<USE_CACHE, cache, clock, remote, fetches>>
funVars == <<norm, trim, book>>
vars == <<PDFS_ENABLED, req, call, USE_CACHE, cache, clock, remote, fetches, resolver,
          norm, trim, book>>

Requests == {1, 2}

Modes == {"story", "part", "list"}
Formats == {"epub", "pdf"}
Creds == {"none", "partial", "both"}

\* The places a handler task is suspended at (an await the event loop returns from).
AwaitPcs == {"await_cookies", "await_story", "await_part", "await_list",
             "await_cover", "await_zip", "await_images", "await_avatar",
             "streaming"}
FinalPcs == {"done", "failed", "cancelled"}

\* A part of a Work (models.py Part), as far as the pipeline reads it.
PartSet == [deleted : BOOLEAN]
SeqsUpTo(S, n) == UNION {[1..k -> S] : k \in 0..n}
WorkSet == {w \in SeqsUpTo(PartSet, MaxParts) : Len(w) >= 1}

\* What one awaited client call hands back to the orchestrator.
HttpErrStatuses == {400, 404, 429, 500}
Outcome(k, s) == [kind |-> k, status |-> s]
CallOutcomes == {Outcome("ok", 200), Outcome("notfound", 400), Outcome("neterr", 0)}
                  \cup {Outcome("http", s) : s \in HttpErrStatuses}
ImageOutcomes == {"ok", "httpfail", "neterr"}

\* ------------------------------------------------ error -> response
\* main.py:186-205
download_error_handler(status) ==
    CASE status \in {400, 404} -> 404
      [] status = 429 -> 429
      [] OTHER -> 500

\* main.py:208-214 (PartNotFoundError subclasses StoryNotFoundError, exceptions.py:11)
download_wp_error_handler(exc) ==
    IF exc \in {"StoryNotFoundError", "PartNotFoundError"} THEN 404 ELSE 500

\* The response handle_download ends in when it returns an HTMLResponse itself or
\* an exception leaves it: the two registered handlers, FastAPI's own for
\* HTTPException, a server error for the rest.
ExceptionStatus(exc, status) ==
    CASE exc = "ClientResponseError" -> download_error_handler(status)
      [] exc \in {"StoryNotFoundError", "PartNotFoundError"} -> download_wp_error_handler(exc)
      [] exc \in {"HTTPException", "HTMLResponse"} -> status
      [] OTHER -> 500

\* ------------------------------------------------------ request state
NewRequest(m, f, di, c) ==
    [pc |-> "start", mode |-> m, format |-> f, download_images |-> di, creds |-> c,
     trace |-> <<"Idle">>,          \* history: the stages entered, in order
     cookies |-> FALSE,             \* handle_download's cookies is not None
     status |-> 0, exc |-> "none", cause |-> "none",
     upstream |-> 0,                \* history: the status of the answer a call failed on
     nstories |-> 0, sidx |-> 0,    \* metadata["stories"] and the member in work
     parts |-> <<>>,                \* metadata["parts"] of the member in work
     part_trees |-> <<>>,           \* indices of the parts normalized
     images |-> 0,                  \* image sequences appended, one per tree
     unresolved |-> FALSE,          \* some image of the request came back None
     generated |-> 0,               \* generators constructed, compiled and dumped
     archived |-> 0,                \* entries written to the outer archive
     nbytes |-> 0, pos |-> 0,       \* the output buffer: its length and its position
     sent |-> 0,                    \* history: the bytes the response body yielded
     emitted |-> <<>>,              \* history: the pieces the response body yielded
     calls |-> 0,                   \* history: outbound calls issued
     cpu |-> 0,                     \* history: normalizations and generator runs
     queue |-> <<>>,                \* the middleware's message queue
     disconnected |-> FALSE,        \* the poller has seen http.disconnect
     must_cancel |-> FALSE]         \* handler_task.cancel() is pending

\* A request that never arrives.
Absent == [NewRequest("story", "epub", FALSE, "none") EXCEPT !.pc = "absent"]

Enter(s, stage) == [s EXCEPT !.trace = Append(@, stage)]
Issue(s, await) == [s EXCEPT !.pc = await, !.calls = @ + 1]

\* An exception propagates out of handle_download (or an error response is returned).
Fail(s, exc, status, cause) ==
    [Enter(s, "Failed") EXCEPT !.pc = "failed", !.exc = exc, !.cause = cause,
                               !.status = ExceptionStatus(exc, status)]

\* An awaited client call raised: what the orchestrator sees of each outcome.
RaiseOutcome(s, out, notfound, cause) ==
    LET u == [s EXCEPT !.upstream = out.status]
    IN  CASE out.kind = "notfound" -> Fail(u, notfound, 0, cause)
          [] out.kind = "http" -> Fail(u, "ClientResponseError", out.status, cause)
          [] OTHER -> Fail(u, "ClientConnectorError", 0, cause)

\* create_book.py:43-78 under main.py:244-251: what the login call may meet.  Any
\* status but 204, and a 204 without cookies, is a ValueError; handle_download
\* answers a ValueError with 403.
LoginOutcomes ==
    {Outcome("ok", 204), Outcome("nocookies", 204), Outcome("neterr", 0)}
      \cup {Outcome("http", s) : s \in HttpErrStatuses}
LoginFailed(s, out) ==
    LET u == [s EXCEPT !.upstream = out.status]
    IN  IF out.kind = "neterr" THEN Fail(u, "ClientConnectorError", 0, "login")
        ELSE Fail(u, "HTMLResponse", 403, "login")

\* create_book.py:153-165 under main.py:107-112 and 145-150: what the fetch of the
\* cover or of the avatar may meet; an empty body is answered with 422.
ImageCallOutcomes ==
    {Outcome("bytes", 200), Outcome("nobytes", 200), Outcome("neterr", 0)}
      \cup {Outcome("http", s) : s \in HttpErrStatuses}
ImageCallFailed(s, out, cause) ==
    IF out.kind = "nobytes" THEN Fail(s, "HTTPException", 422, cause)
    ELSE RaiseOutcome(s, out, "none", cause)

\* main.py:300: output_buffer.read(512 * 4)
chunk_size == 512 * 4
\* A piece the response body yields: the position of the buffer it was read at,
\* its length, and whether a sleep came before it.
Piece(at, size, slept) == [at |-> at, size |-> size, slept |-> slept]

\* Mutant of iterfile: the buffer is read 512 bytes at a time.
iterfile_512(s) ==
    LET rest == s.nbytes - s.pos
    IN  Piece(s.pos, IF rest < 512 THEN rest ELSE 512, TRUE)

\* main.py:299-302: iterfile reads the next chunk, sleeps, and yields it.
iterfile(s) ==
    LET rest == s.nbytes - s.pos
    IN  Piece(s.pos, IF rest < chunk_size THEN rest ELSE chunk_size, TRUE)

\* The buffer iterated as it is: io.BytesIO yields its lines, so the next piece
\* ends where the content has its next newline (at most MaxChunks pieces here).
Lines(s) ==
    LET rest == s.nbytes - s.pos
    IN  {Piece(s.pos, rest, FALSE)}
          \cup (IF rest > 1 /\ Len(s.emitted) + 1 < MaxChunks
                THEN {Piece(s.pos, 1, FALSE)}
                ELSE {})

\* Mutant of body_iterator: the response is always given the buffer itself.
body_iterator_buffer(s, pdfs) == Lines(s)

\* main.py:304-305: output_buffer if PDFS_ENABLED else iterfile(); the pieces the
\* body may yield next.
body_iterator(s, pdfs) == IF pdfs THEN Lines(s) ELSE {iterfile(s)}

\* main.py:299-311: the response starts and the buffer is streamed.  The buffer
\* was rewound where it was made (epub.py:113, pdf.py:283, main.py:176).
StartStreaming(s, n) ==
    [Enter(s, "Streaming") EXCEPT !.pc = "streaming", !.status = 200,
                                  !.nbytes = n, !.pos = 0, !.sent = 0,
                                  !.emitted = <<>>]

\* main.py:107-110: download_story begins with the cover fetch.
download_story_begin(s, parts) ==
    Issue([s EXCEPT !.parts = parts, !.part_trees = <<>>, !.images = 0,
                    !.sidx = @ + 1], "await_cover")

\* Mutant of Generate: download_list returns its archive after the first member.
GenerateFirstOnly(s, n, nx) ==
    LET g == [Enter(s, "Compiled") EXCEPT !.generated = @ + 1, !.cpu = @ + 1]
    IN  IF g.mode = "list" THEN StartStreaming([g EXCEPT !.archived = @ + 1], n)
        ELSE StartStreaming(g, n)

\* main.py:157-159 and 168-178, 283-311: compile, dump, and what follows the dump.
Generate(s, n, nx) ==
    LET g == [Enter(s, "Compiled") EXCEPT !.generated = @ + 1, !.cpu = @ + 1]
    IN  IF g.mode = "list"
        THEN LET a == [g EXCEPT !.archived = @ + 1]
             IN  IF a.sidx < a.nstories THEN download_story_begin(a, nx)
                 ELSE StartStreaming(a, n)
        ELSE StartStreaming(g, n)

\* Mutant of BuildOutput: the paginated generator is constructed before the avatar
\* is known to be there.
BuildOutputEager(s, n, nx) ==
    IF s.format = "epub" THEN Generate(s, n, nx)
    ELSE Issue([s EXCEPT !.generated = @ + 1], "await_avatar")

\* main.py:139-153: the generator of the format; the paginated one needs the avatar.
BuildOutput(s, n, nx) ==
    IF s.format = "epub" THEN Generate(s, n, nx) ELSE Issue(s, "await_avatar")

\* Mutant of ResolveImages: the images are resolved whether requested or not.
ResolveImagesAlways(s, n, nx) ==
    IF s.images < Len(s.part_trees)
    THEN Issue(s, "await_images")
    ELSE BuildOutput(Enter(s, "ImagesResolved"), n, nx)

\* main.py:132-137: the image sequences, one resolver call per tree, in order.
ResolveImages(s, n, nx) ==
    IF ~s.download_images THEN BuildOutput(s, n, nx)
    ELSE IF s.images < Len(s.part_trees)
         THEN Issue(s, "await_images")
         ELSE BuildOutput(Enter(s, "ImagesResolved"), n, nx)

\* Mutant of NotDeleted: the deleted flag is not looked at.
NotDeletedAll(parts) == [i \in 1..Len(parts) |-> i]

\* main.py:119-130: every part not flagged deleted is normalized, in order.
NotDeleted(parts) ==
    LET F[i \in 0..Len(parts)] ==
          IF i = 0 THEN <<>>
          ELSE IF parts[i].deleted THEN F[i - 1] ELSE Append(F[i - 1], i)
    IN  F[Len(parts)]

ParseParts(s) ==
    LET trees == NotDeleted(s.parts)
    IN  [Enter(s, "Normalized") EXCEPT !.part_trees = trees, !.cpu = @ + Len(trees)]

\* main.py:255-297: the format and mode checks and the metadata call.
AfterCookies(s, pdfs) ==
    IF s.format = "pdf" /\ ~pdfs THEN Fail(s, "HTMLResponse", 403, "pdf_disabled")
    ELSE CASE s.mode = "story" -> Issue(s, "await_story")
           [] s.mode = "part" -> Issue(s, "await_part")
           [] OTHER -> IF ~pdfs THEN Fail(s, "HTMLResponse", 403, "list_disabled")
                       ELSE Issue(s, "await_list")

\* main.py:233-253: the credential checks and the login call.
handle_download_begin(s, pdfs) ==
    CASE s.creds = "partial" -> Fail(s, "HTMLResponse", 422, "credentials")
      [] s.creds = "both" -> Issue(s, "await_cookies")
      [] OTHER -> AfterCookies(s, pdfs)

\* The parts of the list member download_list turns to next, where there is one
\* (a Work is immutable, so it is drawn when its pipeline starts).
MoreStories(s) == s.mode = "list" /\ s.sidx < s.nstories
NextWorks(s) == IF MoreStories(s) THEN WorkSet ELSE {<<>>}
\* The size of the buffer a step may start streaming.
Buffers(s) ==
    IF MoreStories(s) THEN {0}
    ELSE {(k - 1) * chunk_size + last : k \in 1..MaxChunks, last \in {1, chunk_size}}

Running(r) == req[r].pc \in AwaitPcs \cup {"start"}
CanStep(r, pc) == req[r].pc = pc /\ ~req[r].must_cancel

Set(r, s) ==
    req' = [req EXCEPT ![r] = s] /\ UNCHANGED <<PDFS_ENABLED, call, clientVars, resolver, funVars>>

\* ------------------------------------------------------------ actions
\* handle_download up to its first await.
HandleDownload(r) ==
    /\ CanStep(r, "start")
    /\ Set(r, handle_download_begin(req[r], PDFS_ENABLED))

\* main.py:244-251: fetch_cookies returns the cookies or raises.
FetchCookiesDone(r) ==
    /\ CanStep(r, "await_cookies")
    /\ \E out \in LoginOutcomes :
         Set(r, IF out.kind = "ok"
                THEN AfterCookies([req[r] EXCEPT !.cookies = TRUE], PDFS_ENABLED)
                ELSE LoginFailed(req[r], out))

\* main.py:270-282: fetch_story / fetch_story_from_partId returns or raises.
FetchStoryDone(r) ==
    /\ req[r].pc \in {"await_story", "await_part"} /\ ~req[r].must_cancel
    /\ \E out \in CallOutcomes :
       \E parts \in IF out.kind = "ok" THEN WorkSet ELSE {<<>>} :
         Set(r, IF out.kind = "ok"
                THEN download_story_begin(
                         [Enter(req[r], "MetadataFetched") EXCEPT !.nstories = 1], parts)
                ELSE RaiseOutcome(req[r], out,
                         IF req[r].pc = "await_part" THEN "PartNotFoundError"
                         ELSE "StoryNotFoundError", "metadata"))

\* main.py:291-294: fetch_list returns the list's stories or raises.
FetchListDone(r) ==
    /\ CanStep(r, "await_list")
    /\ \E out \in CallOutcomes \ {Outcome("notfound", 400)} :
       \E n \in IF out.kind = "ok" THEN 1..MaxStories ELSE {0},
          parts \in IF out.kind = "ok" THEN WorkSet ELSE {<<>>} :
         Set(r, IF out.kind = "ok"
                THEN download_story_begin(
                         [Enter(req[r], "MetadataFetched") EXCEPT !.nstories = n], parts)
                ELSE RaiseOutcome(req[r], out, "none", "metadata"))

\* main.py:108-115: the cover bytes, then the content archive is asked for.
FetchCoverDone(r) ==
    /\ CanStep(r, "await_cover")
    /\ \E out \in ImageCallOutcomes :
         Set(r, IF out.kind = "bytes" THEN Issue(req[r], "await_zip")
                ELSE ImageCallFailed(req[r], out, "cover"))

\* main.py:115-159: the archive arrives; parts are parsed; then images or output.
FetchZipDone(r) ==
    /\ CanStep(r, "await_zip")
    /\ \E out \in CallOutcomes \ {Outcome("notfound", 400)} :
       \E n \in IF out.kind = "ok" THEN Buffers(req[r]) ELSE {0},
          nx \in IF out.kind = "ok" THEN NextWorks(req[r]) ELSE {<<>>} :
         Set(r, IF out.kind = "ok"
                THEN ResolveImages(ParseParts(Enter(req[r], "ContentFetched")), n, nx)
                ELSE RaiseOutcome(req[r], out, "none", "archive"))

\* parser.py:78-87 as download_story sees it: the tree's images, or the exception
\* of a fetch that raised.
fetch_tree_images_result(outs) ==
    IF \E i \in DOMAIN outs : outs[i] = "neterr" THEN "raised"
    ELSE "returned"

FetchTreeImagesDone(r) ==
    /\ CanStep(r, "await_images")
    /\ LET s == req[r]
       IN  \E outs \in SeqsUpTo(ImageOutcomes, MaxImgs) :
           \E n \in IF fetch_tree_images_result(outs) = "raised" THEN {0} ELSE Buffers(s),
              nx \in IF fetch_tree_images_result(outs) = "raised" THEN {<<>>}
                     ELSE NextWorks(s) :
             Set(r, IF fetch_tree_images_result(outs) = "raised"
                    THEN Fail(s, "ClientConnectorError", 0, "image")
                    ELSE ResolveImages(
                             [s EXCEPT !.images = @ + 1,
                                       !.unresolved = @ \/ \E i \in DOMAIN outs :
                                                               outs[i] = "httpfail"],
                             n, nx))

\* main.py:145-153: the avatar bytes, then the paginated generator.
FetchAvatarDone(r) ==
    /\ CanStep(r, "await_avatar")
    /\ \E out \in ImageCallOutcomes :
       \E n \in IF out.kind = "bytes" THEN Buffers(req[r]) ELSE {0},
          nx \in IF out.kind = "bytes" THEN NextWorks(req[r]) ELSE {<<>>} :
         Set(r, IF out.kind = "bytes" THEN Generate(req[r], n, nx)
                ELSE ImageCallFailed(req[r], out, "avatar"))

\* main.py:299-311: one chunk leaves; the stream ends with the buffer.
StreamChunk(r) ==
    /\ CanStep(r, "streaming")
    /\ \E piece \in body_iterator(req[r], PDFS_ENABLED) :
         LET s == [req[r] EXCEPT !.pos = @ + piece.size, !.sent = @ + piece.size,
                                 !.emitted = Append(@, piece)]
         IN  Set(r, IF s.pos = s.nbytes THEN [Enter(s, "Done") EXCEPT !.pc = "done"]
                    ELSE s)

\* Mutant of message_poller: the disconnect is queued like any message and the
\* handler task is left alone.
message_poller_forwards(s, message) ==
    IF message = "http.disconnect"
    THEN [s EXCEPT !.disconnected = TRUE, !.queue = Append(@, message)]
    ELSE [s EXCEPT !.queue = Append(@, message)]

\* main.py:60-69: the poller takes the next message of the connection.
message_poller(s, message) ==
    IF message = "http.disconnect"
    THEN [s EXCEPT !.disconnected = TRUE,
                   !.must_cancel = s.pc \in AwaitPcs]
    ELSE [s EXCEPT !.queue = Append(@, message)]

\* Mutant of RequestCancelledMiddleware: one handler task for all connections,
\* so a disconnect cancels every handler that waits.
RequestCancelledMiddlewareShared(q, r, message) ==
    [x \in Requests |->
        IF x = r THEN message_poller(q[x], message)
        ELSE IF message = "http.disconnect" /\ q[x].pc \in AwaitPcs
             THEN [q[x] EXCEPT !.must_cancel = TRUE]
             ELSE q[x]]

\* main.py:52-78: queue, handler_task and message_poller are locals of one
\* __call__, so the poller of connection r reaches the queue and the handler task
\* of r and no other.
RequestCancelledMiddleware(q, r, message) ==
    [q EXCEPT ![r] = message_poller(q[r], message)]

Poll(r, message) ==
    /\ req[r].pc \notin {"absent", "start"}
    /\ ~req[r].disconnected
    /\ message = "http.request" => req[r].queue = <<>>
    /\ req' = RequestCancelledMiddleware(req, r, message)
    /\ UNCHANGED <<PDFS_ENABLED, call, clientVars, resolver, funVars>>

MessagePoller(r) == \E message \in {"http.request", "http.disconnect"} : Poll(r, message)

\* main.py:75-78: CancelledError is thrown into the handler task where it waits.
Cancelled(r) ==
    /\ Running(r)
    /\ req[r].must_cancel
    /\ Set(r, [Enter(req[r], "Cancelled") EXCEPT !.pc = "cancelled", !.must_cancel = FALSE])

\* ------------------------------------------------- the remote client
\* create_book.py:84, 109, 132, 153: @backoff.on_exception(backoff.expo,
\* ClientResponseError, max_time=15)
max_time == 15

\* The client functions, and the one the orchestrator fetches images with.
CallKinds == {"fetch_story", "fetch_story_from_partId", "fetch_story_content_zip",
              "fetch_image", "parser.fetch_image", "fetch_cookies"}

\* create_book.py:84, 109, 132, 153 carry the decorator; parser.py:65 and
\* create_book.py:43 do not.
Wrapped(kind) ==
    kind \in {"fetch_story", "fetch_story_from_partId", "fetch_story_content_zip",
              "fetch_image"}

\* What one attempt may meet: no answer at all (status 0), or a status and a body.
\* "error_code" is the API's not-found code of the call (1017 for a story, 1020
\* for a part).
Response(status, body) == [status |-> status, body |-> body]
Responses ==
    {Response(0, "none"),
     Response(200, "data"), Response(200, "empty"),
     Response(204, "cookies"), Response(204, "empty"),
     Response(400, "error_code"), Response(400, "data"),
     Response(429, "data"), Response(500, "data")}

Returns(v) == [exc |-> "none", status |-> 0, value |-> v]
Raises(e, s) == [exc |-> e, status |-> s, value |-> "none"]

\* The body of each function on one response: what it returns or raises.
\* create_book.py:89-106, 112-129, 137-150, 156-165, 58-78; parser.py:65-75.
NotFoundAnswer(resp) == resp.status = 400 /\ resp.body = "error_code"

\* Mutant of Target: the not-found code is not looked at, so the answer falls
\* through to raise_for_status like any other 400.
TargetNoErrorCode(kind, resp) ==
    CASE resp.status = 0 -> Raises("ClientConnectorError", 0)
      [] kind = "fetch_cookies" ->
            IF resp.status # 204 \/ resp.body # "cookies" THEN Raises("ValueError", 0)
            ELSE Returns("cookies")
      [] kind = "parser.fetch_image" ->
            IF resp.status >= 400 THEN Returns("None") ELSE Returns(resp.body)
      [] resp.status >= 400 -> Raises("ClientResponseError", resp.status)
      [] OTHER -> Returns(resp.body)

Target(kind, resp) ==
    CASE resp.status = 0 -> Raises("ClientConnectorError", 0)
      [] kind = "fetch_cookies" ->
            IF resp.status # 204 \/ resp.body # "cookies" THEN Raises("ValueError", 0)
            ELSE Returns("cookies")
      [] kind = "parser.fetch_image" ->
            IF resp.status >= 400 THEN Returns("None") ELSE Returns(resp.body)
      [] kind = "fetch_story" /\ NotFoundAnswer(resp) -> Raises("StoryNotFoundError", 0)
      [] kind = "fetch_story_from_partId" /\ NotFoundAnswer(resp) ->
            Raises("PartNotFoundError", 0)
      [] resp.status >= 400 -> Raises("ClientResponseError", resp.status)
      [] OTHER -> Returns(resp.body)

\* backoff.expo: 1, 2, 4, ... seconds before the 1st, 2nd, 3rd, ... re-attempt.
RECURSIVE expo(_)
expo(n) == IF n <= 1 THEN 1 ELSE 2 * expo(n - 1)

Min(a, b) == IF a <= b THEN a ELSE b

\* The decorator's policy on an exception of the target: give up, or the longest
\* sleep before the next attempt (the jitter draws the sleep below it).  For an
\* undecorated function every exception leaves it.
GivesUp(kind, exc, elapsed) ==
    ~Wrapped(kind) \/ exc # "ClientResponseError" \/ elapsed >= max_time

NextWait(tries, elapsed) == Min(expo(tries), max_time - elapsed)

\* The response the client of the request gets when the call raises into
\* handle_download (main.py:186-214, 244-251).
ClientStatus(kind, exc, status) ==
    IF kind = "fetch_cookies" /\ exc = "ValueError" THEN 403
    ELSE ExceptionStatus(exc, status)

NoCall == [kind |-> "none", phase |-> "idle"]

NewCall(kind) ==
    [kind |-> kind, phase |-> "inflight",
     tries |-> 1,                   \* attempts started
     now |-> 0,                     \* seconds since the call began
     elapsed |-> 0,                 \* the same, read as the current attempt began
     sleep |-> 0,                   \* the sleep before the next attempt
     resp |-> Response(0, "none"),  \* what the last attempt met
     last |-> Returns("none"),      \* what the last attempt returned or raised
     client |-> 0]                  \* the client's response, if the call raised

\* One attempt ends: the function returns, raises to its caller, or is slept on.
attempt_done(c, resp, dur, jitter) ==
    LET res == Target(c.kind, resp)
        at == [c EXCEPT !.now = @ + dur, !.resp = resp, !.last = res]
    IN  IF res.exc = "none" THEN [at EXCEPT !.phase = "returned"]
        ELSE IF GivesUp(c.kind, res.exc, c.elapsed)
        THEN [at EXCEPT !.phase = "raised",
                        !.client = ClientStatus(c.kind, res.exc, res.status)]
        ELSE [at EXCEPT !.phase = "sleeping",
                        !.sleep = Min(jitter, NextWait(c.tries, c.elapsed))]

\* The sleep is over: the next attempt starts.
next_attempt(c) ==
    [c EXCEPT !.phase = "inflight", !.tries = @ + 1, !.now = @ + c.sleep,
              !.elapsed = c.now + c.sleep, !.sleep = 0]

AttemptDone ==
    /\ call.phase = "inflight"
    /\ \E resp \in Responses, dur \in 1..MaxDur, jitter \in 0..max_time :
         call' = attempt_done(call, resp, dur, jitter)
    /\ UNCHANGED <<PDFS_ENABLED, req, clientVars, resolver, funVars>>

NextAttempt ==
    /\ call.phase = "sleeping"
    /\ call' = next_attempt(call)
    /\ UNCHANGED <<PDFS_ENABLED, req, clientVars, resolver, funVars>>

\* ------------------------------------------------ the response cache
\* create_book.py:27-38 and the session each fetch function opens.  A fetch is a
\* lookup in the session's cache, then, if that missed, the network request and
\* the write of a successful response; other fetches run between the two.
expire_after == 43200

FetchFns == {"fetch_story", "fetch_story_from_partId", "fetch_story_content_zip"}
Callers == {1, 2}

\* What the remote API answers: the content as the public sees it, or as the
\* account whose cookies the request carries sees it.
Payload(fn, view, version) == [fn |-> fn, view |-> view, version |-> version]
NoPayload == Payload("none", "none", 0)

\* fetch_story_from_partId opens its session without the cookies (line 91-93); the
\* other two pass them on.
View(fn, cookies) ==
    IF cookies /\ fn # "fetch_story_from_partId" THEN "account" ELSE "public"

NoEntry == [payload |-> NoPayload, expires |-> 0]
NewEntry(payload, now) == [payload |-> payload, expires |-> now + expire_after]
is_expired(entry, now) == now > entry.expires

\* Mutant of session_cache: every session is given the module's cache.
session_cache_shared(use_cache, cookies) == IF use_cache THEN "shared" ELSE "private"

\* cache=None if cookies else cache: a session given None keeps a cache of its own,
\* empty when the session opens and gone when it closes.
session_cache(use_cache, cookies) ==
    IF cookies \/ ~use_cache THEN "private" ELSE "shared"

\* Mutant of Lookup: an entry is served whatever its age.
LookupAnyAge(backend, store, fn, now) ==
    IF backend = "shared" /\ store[fn] # NoEntry THEN store[fn] ELSE NoEntry

\* The entry the session's cache answers the request with, NoEntry on a miss.  The
\* cache keys a request by its method and URL, here the function that builds it.
Lookup(backend, store, fn, now) ==
    IF backend = "shared" /\ store[fn] # NoEntry /\ ~is_expired(store[fn], now)
    THEN store[fn] ELSE NoEntry

NoFetch ==
    [fn |-> "none", cookies |-> FALSE, backend |-> "none", pc |-> "idle",
     entry |-> NoEntry, netcalls |-> 0, wrote |-> FALSE, payload |-> NoPayload]
NewFetch(fn, cookies, backend) ==
    [NoFetch EXCEPT !.fn = fn, !.cookies = cookies, !.backend = backend,
                    !.pc = "lookup"]

\* session.get up to its first suspension past the cache: a hit returns the stored
\* response, a miss sends the request.  entry is the entry the lookup answered
\* with, netcalls the network requests made.
begin_fetch(f, store, now) ==
    LET entry == Lookup(f.backend, store, f.fn, now)
    IN  IF entry # NoEntry
        THEN [f EXCEPT !.pc = "returned", !.entry = entry, !.payload = entry.payload]
        ELSE [f EXCEPT !.pc = "network", !.netcalls = @ + 1]

\* The response arrives.  Only a 200 is stored (entry: the entry written, wrote:
\* into the shared cache); an error status raises.
response_arrives(f, ok, version, now) ==
    LET body == Payload(f.fn, View(f.fn, f.cookies), version)
    IN  IF ~ok THEN [f EXCEPT !.pc = "raised"]
        ELSE [f EXCEPT !.pc = "returned", !.payload = body,
                       !.entry = NewEntry(body, now),
                       !.wrote = (f.backend = "shared")]

BeginFetch(c) ==
    /\ fetches[c].pc \in {"idle", "returned", "raised"}
    /\ \E fn \in DOMAIN cache, cookies \in BOOLEAN :
         fetches' = [fetches EXCEPT ![c] =
                        begin_fetch(NewFetch(fn, cookies,
                                             session_cache(USE_CACHE, cookies)),
                                    cache, clock)]
    /\ UNCHANGED <<PDFS_ENABLED, req, call, USE_CACHE, cache, clock, remote, resolver, funVars>>

ResponseArrives(c) ==
    /\ fetches[c].pc = "network"
    /\ \E ok \in BOOLEAN :
         LET f == response_arrives(fetches[c], ok, remote, clock)
         IN  /\ fetches' = [fetches EXCEPT ![c] = f]
             /\ cache' = IF f.wrote THEN [cache EXCEPT ![f.fn] = f.entry] ELSE cache
    /\ UNCHANGED <<PDFS_ENABLED, req, call, USE_CACHE, clock, remote, resolver, funVars>>

\* Time passes, half an expiry window at a time.
Tick ==
    /\ clock < MaxTicks * (expire_after \div 2)
    /\ clock' = clock + (expire_after \div 2)
    /\ UNCHANGED <<PDFS_ENABLED, req, call, USE_CACHE, cache, remote, fetches, resolver, funVars>>

\* The author edits the work: the remote API serves a new version from now on.
RemoteChanges ==
    /\ remote < MaxVersions
    /\ remote' = remote + 1
    /\ UNCHANGED <<PDFS_ENABLED, req, call, USE_CACHE, cache, clock, fetches, resolver, funVars>>

\* The entries of different functions never meet: a run follows one function.
EmptyCache(fn) == [f \in {fn} |-> NoEntry]
NoFetches == [c \in Callers |-> NoFetch]

\* ------------------------------------------------- the image resolver
\* parser.fetch_tree_images on one chapter tree: the sources of its image nodes in
\* tree order, fetched chunk by chunk.  Each fetch of a chunk is a task of its own.
batch_size == 3
Urls == {"a.jpg", "b.jpg"}
Bytes(url) == <<"bytes", url>>
None == <<"None">>

\* itertools.batched: the positions of the k-th chunk of n sources.
batched(k, n) == {i \in 1..n : (k - 1) * batch_size < i /\ i <= k * batch_size}

NoResolver ==
    [pc |-> "idle", image_urls |-> <<>>, fetch |-> <<>>, chunk |-> 0,
     images |-> <<>>, order |-> <<>>]
\* fetch: position -> "todo", "inflight", or how the fetch ended ("bytes", "None",
\* "raised"); images: the list the resolver appends to; order: the positions in
\* the order their fetches ended.
NewResolver(image_urls) ==
    [NoResolver EXCEPT !.pc = "loop", !.image_urls = image_urls,
                       !.fetch = [i \in 1..Len(image_urls) |-> "todo"]]

\* parser.fetch_image: the bytes of the body, None for a status that is not ok; a
\* transport error raises out of it.
fetch_image(outcome) ==
    CASE outcome = "ok" -> "bytes" [] outcome = "httpfail" -> "None" [] OTHER -> "raised"

Result(r, i) == IF r.fetch[i] = "bytes" THEN Bytes(r.image_urls[i]) ELSE None

RECURSIVE GatherResults(_, _, _)
\* asyncio.gather: the results in the order of its arguments.
GatherResults(r, i, last) ==
    IF i > last THEN <<>> ELSE <<Result(r, i)>> \o GatherResults(r, i + 1, last)

\* Mutant of gather_done: the resolver goes on as soon as one fetch has ended.
gather_done_any(r) ==
    \E i \in batched(r.chunk, Len(r.image_urls)) : r.fetch[i] \in {"bytes", "None"}

\* The gather's future has its result: every fetch of the chunk has returned.
gather_done(r) ==
    \A i \in batched(r.chunk, Len(r.image_urls)) : r.fetch[i] \in {"bytes", "None"}

\* The next turn of the for loop: the next chunk's fetches are started together,
\* or, the sources used up, the list is returned.
next_chunk(r) ==
    LET k == r.chunk + 1
        n == Len(r.image_urls)
    IN  IF batched(k, n) = {} THEN [r EXCEPT !.pc = "returned"]
        ELSE [r EXCEPT !.pc = "gather", !.chunk = k,
                       !.fetch = [i \in 1..n |-> IF i \in batched(k, n)
                                                 THEN "inflight" ELSE @[i]]]

SetResolver(r) ==
    resolver' = r /\ UNCHANGED <<PDFS_ENABLED, req, call, clientVars, funVars>>

FirstChunk ==
    /\ resolver.pc = "loop"
    /\ SetResolver(next_chunk(resolver))

\* One fetch of the chunk ends.
FetchImageDone(i) ==
    /\ i \in 1..Len(resolver.image_urls) /\ resolver.fetch[i] = "inflight"
    /\ \E outcome \in ImageOutcomes :
         SetResolver([resolver EXCEPT !.fetch[i] = fetch_image(outcome),
                                      !.order = Append(@, i)])

\* The gather returns: its results are appended and the loop goes on.
GatherReturns ==
    /\ resolver.pc = "gather" /\ gather_done(resolver)
    /\ LET lo == (resolver.chunk - 1) * batch_size + 1
           hi == lo + Cardinality(batched(resolver.chunk, Len(resolver.image_urls))) - 1
       IN  SetResolver(next_chunk([resolver EXCEPT
                           !.images = @ \o GatherResults(resolver, lo, hi)]))

\* The gather raises the first exception of its fetches; the others of the chunk
\* are left running.
GatherRaises ==
    /\ resolver.pc = "gather"
    /\ \E i \in batched(resolver.chunk, Len(resolver.image_urls)) :
         resolver.fetch[i] = "raised"
    /\ SetResolver([resolver EXCEPT !.pc = "raised"])

\* ------------------------------------------------------ the normalizer
\* parser.clean_tree on the parsed markup of one chapter: the children of <body>,
\* each with its tag name, its style attribute and its own children.  An inline
\* child is a text node or a tag; an <img> has its src ("missing": no such
\* attribute) and may carry data-original-width / data-original-height.
Text == [name |-> "None", src |-> "none", dims |-> FALSE]
Inline(name) == [name |-> name, src |-> "none", dims |-> FALSE]
Img(src, dims) == [name |-> "img", src |-> src, dims |-> dims]
Inlines ==
    {Text, Inline("em"), Inline("br"), Inline("a"),
     Img("a.jpg", TRUE), Img("b.jpg", FALSE), Img("", TRUE), Img("missing", FALSE)}
Styles == {"none", "text-align: center;"}
Wrapper(name, style, children) ==
    [name |-> name, style |-> style, children |-> children]

\* A top-level tag that is not a <p> is taken without its style and children,
\* which the normalizer never reads.
TagNames == {"p", "div"}
WellFormed(tag) == tag.name = "p" \/ (tag.style = "none" /\ tag.children = <<>>)

\* The nodes the normalizer puts under the body section.  from: the place in the
\* source (top-level tag, child; child 0 for the tag itself) the node was made of.
PNode(w, tag) ==
    [name |-> "p", from |-> <<w, 0>>, style |-> tag.style, children |-> tag.children,
     src |-> "none", height |-> "None", width |-> "None"]
ImgNode(w, c, tag, child) ==
    [name |-> "img", from |-> <<w, c>>, style |-> tag.style, children |-> <<>>,
     src |-> child.src,
     height |-> IF child.dims THEN "data-original-height" ELSE "None",
     width |-> IF child.dims THEN "data-original-width" ELSE "None"]
BrNode(w, c, tag) ==
    [name |-> "br", from |-> <<w, c>>, style |-> tag.style, children |-> <<>>,
     src |-> "none", height |-> "None", width |-> "None"]

\* child["src"] of an <img> without the attribute.
KeyError ==
    [name |-> "KeyError", from |-> <<0, 0>>, style |-> "none", children |-> <<>>,
     src |-> "none", height |-> "None", width |-> "None"]
Raised(nodes) == \E i \in 1..Len(nodes) : nodes[i] = KeyError

RECURSIVE clean_children(_, _, _)
\* The inner loop (lines 29-60) from child c of top-level tag w on: the nodes it
\* appends, the last of them KeyError if it raised.  A text-like child moves the
\* whole <p> over and ends the loop; a tag of any other name is passed over.
clean_children(w, tag, c) ==
    IF c > Len(tag.children) THEN <<>>
    ELSE LET child == tag.children[c]
         IN  IF child.name \in {"None", "b", "i", "u", "strong", "em"}
             THEN <<PNode(w, tag)>>
             ELSE IF child.name = "img"
             THEN IF child.src = "missing" THEN <<KeyError>>
                  ELSE <<ImgNode(w, c, tag, child)>> \o clean_children(w, tag, c + 1)
             ELSE IF child.name = "br"
             THEN <<BrNode(w, c, tag)>> \o clean_children(w, tag, c + 1)
             ELSE clean_children(w, tag, c + 1)

RECURSIVE clean_tags(_, _)
\* The outer loop (lines 24-27) from top-level tag w on.
clean_tags(body, w) ==
    IF w > Len(body) THEN <<>>
    ELSE LET tag == body[w]
             nodes == IF tag.name # "p" THEN <<>> ELSE clean_children(w, tag, 1)
         IN  IF Raised(nodes) THEN nodes ELSE nodes \o clean_tags(body, w + 1)

clean_tree(body) == clean_tags(body, 1)

NoNorm == [pc |-> "idle", body |-> <<>>, tree |-> <<>>]

\* Line 13: the chapter's markup is parsed: at most two top-level tags, with at
\* most MaxInline inline children between them.
ParseBody ==
    /\ norm.pc = "markup"
    /\ \E n \in 0..2, k1, k2 \in 0..MaxInline :
         /\ k1 + k2 <= MaxInline /\ (n < 2 => k2 = 0) /\ (n < 1 => k1 = 0)
         /\ \E n1, n2 \in TagNames, s1, s2 \in Styles,
               c1 \in [1..k1 -> Inlines], c2 \in [1..k2 -> Inlines] :
              LET a == Wrapper(n1, s1, c1)
                  b == Wrapper(n2, s2, c2)
              IN  /\ WellFormed(a) /\ WellFormed(b)
                  /\ n < 2 => b = Wrapper("div", "none", <<>>)
                  /\ n < 1 => a = Wrapper("div", "none", <<>>)
                  /\ norm' = [norm EXCEPT !.pc = "raw",
                                          !.body = SubSeq(<<a, b>>, 1, n)]
    /\ UNCHANGED <<PDFS_ENABLED, req, call, clientVars, resolver, trim, book>>

\* Lines 14-62: the tree is rebuilt.
CleanTree ==
    /\ norm.pc = "raw"
    /\ LET tree == clean_tree(norm.body)
       IN  norm' = IF Raised(tree) THEN [norm EXCEPT !.pc = "raised"]
                   ELSE [norm EXCEPT !.pc = "normalized", !.tree = tree]
    /\ UNCHANGED <<PDFS_ENABLED, req, call, clientVars, resolver, trim, book>>

\* ------------------------------------------------- biography truncation
\* utils.py, smart_trim.  A text is a sequence of characters; "\n" ends a line.
Chars == {"a", "b", "\n"}
marker == <<"<", "b", "r", " ", "/", ">">>
\* The default of the parameter max_length, the one value the generator uses.
max_length == 400
MaxLengths == 1..MaxCap \cup {max_length}

RECURSIVE split(_, _)
\* str.split("\n"): the pieces of text between the newlines, cur being the piece
\* under construction.
split(text, cur) ==
    IF text = <<>> THEN <<cur>>
    ELSE IF Head(text) = "\n" THEN <<cur>> \o split(Tail(text), <<>>)
    ELSE split(Tail(text), Append(cur, Head(text)))

NonEmpty(piece) == piece # <<>>

\* Line 11: the non-empty pieces.
chunks_of(text) == SelectSeq(split(text, <<>>), NonEmpty)

RECURSIVE rstrip_set(_, _)
\* str.rstrip(chars): trailing characters are dropped while they belong to the
\* SET of characters chars.
rstrip_set(s, chars) ==
    IF s # <<>> /\ s[Len(s)] \in chars THEN rstrip_set(SubSeq(s, 1, Len(s) - 1), chars)
    ELSE s

rstrip(s, chars) == rstrip_set(s, {chars[i] : i \in 1..Len(chars)})

NoTrim ==
    [pc |-> "idle", text |-> <<>>, max_length |-> max_length, chunks |-> <<>>,
     i |-> 1, to_return |-> <<>>]

\* Lines 9-13: smart_trim is called on a text.
SmartTrim ==
    /\ trim.pc = "idle"
    /\ \E n \in 0..MaxLen, cap \in MaxLengths :
         \E text \in [1..n -> Chars] :
            trim' = [NoTrim EXCEPT !.pc = "loop", !.text = text, !.max_length = cap,
                                   !.chunks = chunks_of(text)]
    /\ UNCHANGED <<PDFS_ENABLED, req, call, clientVars, resolver, norm, book>>

\* Lines 14-19: one turn of the loop.
TrimChunk ==
    /\ trim.pc = "loop" /\ trim.i <= Len(trim.chunks)
    /\ LET chunk == trim.chunks[trim.i]
       IN  IF Len(trim.to_return) + Len(chunk) < trim.max_length
           THEN trim' = [trim EXCEPT !.to_return = chunk \o marker, !.i = @ + 1]
           ELSE trim' = [trim EXCEPT !.to_return = rstrip(trim.to_return, marker),
                                     !.pc = "returned"]
    /\ UNCHANGED <<PDFS_ENABLED, req, call, clientVars, resolver, norm, book>>

\* Line 21: the loop ran out of chunks.
TrimReturn ==
    /\ trim.pc = "loop" /\ trim.i > Len(trim.chunks)
    /\ trim' = [trim EXCEPT !.pc = "returned"]
    /\ UNCHANGED <<PDFS_ENABLED, req, call, clientVars, resolver, norm, book>>

\* ------------------------------------------------- container generator
\* generators/epub.py, EPUBGenerator, fed as main.py:95-159 feeds a generator: the
\* Work's metadata, and the trees of the parts that are not deleted.
StoryTitles == {"WPD Test", "Other"}
PartTitles == {"Ganesh", "Two"}
\* A part as the metadata declare it; the id of the i-th part is i.
Part(id, title, deleted) == [id |-> id, title |-> title, deleted |-> deleted]
Story(title, parts) == [title |-> title, parts |-> parts]
NoStory == Story("", <<>>)

\* The items of the container and the entries of its spine and table of contents.
Item(file_name, cidx, id, title, content) ==
    [file_name |-> file_name, cidx |-> cidx, id |-> id, title |-> title,
     content |-> content, srcs |-> <<>>]
Plain(file_name) == Item(file_name, 0, 0, "", 0)
cover_chapter == Plain("titlepage.xhtml")
\* Line 60-65 and 92: the chapter made at turn cidx from a part and a tree; content
\* is the id of the part the tree was made from.
EpubHtml(cidx, part, content) == Item("{cidx}_{id}.xhtml", cidx, part.id, part.title, content)

\* A string is a sequence of tokens.  The sources an image node may have: none,
\* one, and one the other is a prefix of.
Srcs == {<<>>, <<"u">>, <<"u", "v">>}
\* A tree: the id of the part it was made from and the sources of its image nodes,
\* in document order.
Tree(of, imgs) == [of |-> of, imgs |-> imgs]

RECURSIVE Forests(_, _)
\* The image sources of n trees that hold at most budget image nodes together.
Forests(n, budget) ==
    IF n = 0 THEN {<<>>}
    ELSE UNION {{<<imgs>> \o rest : rest \in Forests(n - 1, budget - Len(imgs))} :
                  imgs \in SeqsUpTo(Srcs, budget)}

Digit(n) == <<"0", "1", "2", "3", "4", "5">>[n + 1]
\* Line 83 and 89: f"static/{cidx}/{idx}.jpeg".
static(cidx, idx) == <<"static/", Digit(cidx), "/", Digit(idx), ".jpeg">>
\* Line 80-84: the image item, its content being what the source answered.
EpubImage(src, file_name) == [file_name |-> file_name, content |-> src]

RECURSIVE replace(_, _, _)
\* str.replace(old, new): every occurrence of old, from the left, none overlapping.
replace(s, old, new) ==
    IF Len(s) < Len(old) THEN s
    ELSE IF SubSeq(s, 1, Len(old)) = old
         THEN new \o replace(SubSeq(s, Len(old) + 1, Len(s)), old, new)
         ELSE <<Head(s)>> \o replace(Tail(s), old, new)

RECURSIVE rewrite(_, _, _, _)
\* Lines 74-90: the loop over the image nodes from node idx on, str_content being
\* the sources as they stand in the chapter's text.
rewrite(cidx, imgs, idx, str_content) ==
    IF idx >= Len(imgs) THEN str_content
    ELSE IF imgs[idx + 1] = <<>> THEN rewrite(cidx, imgs, idx + 1, str_content)
    ELSE rewrite(cidx, imgs, idx + 1,
                 [k \in 1..Len(str_content) |->
                     replace(str_content[k], imgs[idx + 1], static(cidx, idx))])

\* Lines 80-85: the image items added for one chapter.
packed(cidx, imgs) ==
    LET fetched == SelectSeq([k \in 1..Len(imgs) |-> k], LAMBDA k : imgs[k] # <<>>)
    IN  [j \in 1..Len(fetched) |-> EpubImage(imgs[fetched[j]], static(cidx, fetched[j] - 1))]

\* The document a generator holds: self.epub.
Document(b) == [items |-> b.items, images |-> b.images, toc |-> b.toc, spine |-> b.spine]

NoBook ==
    [pc |-> "idle", body |-> NoStory, data |-> NoStory, contents |-> <<>>,
     download_images |-> FALSE, title |-> "", items |-> <<>>, images |-> <<>>,
     chapters |-> <<>>, toc |-> <<>>, spine |-> <<>>,
     runs |-> 0,                    \* history: runs of add_chapters completed
     first |-> Document([items |-> <<>>, images |-> <<>>, toc |-> <<>>, spine |-> <<>>])]
                                    \* history: the document after the first run

\* create_book.py:109-129: the remote API answers with the Work it declares.
FetchStory ==
    /\ book.pc = "idle"
    /\ \E n \in 1..MaxChapters, title \in StoryTitles :
         \E titles \in [1..n -> PartTitles], deleted \in [1..n -> BOOLEAN] :
            LET body == Story(title, [i \in 1..n |-> Part(i, titles[i], deleted[i])])
            IN  book' = [book EXCEPT !.pc = "fetched", !.body = body, !.data = body]
    /\ UNCHANGED <<PDFS_ENABLED, req, call, clientVars, resolver, norm, trim>>

\* main.py:95-130: one tree per part that is not deleted, made from what the
\* archive holds for the part.
ParseTrees ==
    /\ book.pc = "fetched"
    /\ LET kept == NotDeleted(book.data.parts)
       IN  \E download_images \in BOOLEAN, imgs \in Forests(Len(kept), MaxSrcs) :
              book' = [book EXCEPT !.pc = "parsed",
                                   !.download_images = download_images,
                                   !.contents = [k \in 1..Len(kept) |->
                                        Tree(book.data.parts[kept[k]].id, imgs[k])]]
    /\ UNCHANGED <<PDFS_ENABLED, req, call, clientVars, resolver, norm, trim>>

\* epub.py:14-48: the metadata, the cover and the cover page.
EPUBGenerator ==
    /\ book.pc = "parsed"
    /\ book' = [book EXCEPT !.pc = "chapters", !.title = book.data.title,
                            !.items = <<Plain("cover.jpg"), Plain("cover.xhtml"),
                                        cover_chapter>>]
    /\ UNCHANGED <<PDFS_ENABLED, req, call, clientVars, resolver, norm, trim>>

\* The pairs of zip(self.data["parts"], contents).
zip(parts, contents) ==
    [k \in 1..(IF Len(parts) < Len(contents) THEN Len(parts) ELSE Len(contents))
        |-> <<parts[k], contents[k]>>]

\* epub.py:56-97: one turn of the loop of add_chapters.
AddChapter ==
    /\ book.pc = "chapters"
    /\ LET pairs == zip(book.data.parts, book.contents)
           cidx == Len(book.chapters)
       IN  /\ cidx < Len(pairs)
           /\ LET part == pairs[cidx + 1][1]
                  content == pairs[cidx + 1][2]
                  str_content == IF book.download_images
                                 THEN rewrite(cidx, content.imgs, 0, content.imgs)
                                 ELSE content.imgs
                  chapter == [EpubHtml(cidx, part, content.of) EXCEPT !.srcs = str_content]
              IN  book' = [book EXCEPT
                             !.images = IF book.download_images
                                        THEN @ \o packed(cidx, content.imgs) ELSE @,
                             !.items = Append(@, chapter),
                             !.chapters = Append(@, chapter)]
    /\ UNCHANGED <<PDFS_ENABLED, req, call, clientVars, resolver, norm, trim>>

\* epub.py:99-106: the table of contents and the spine.
SetSpine ==
    /\ book.pc = "chapters"
    /\ Len(book.chapters) = Len(zip(book.data.parts, book.contents))
    /\ LET b == [book EXCEPT !.pc = "compiled",
                             !.toc = book.chapters,
                             !.items = @ \o <<Plain("toc.ncx"), Plain("nav.xhtml")>>,
                             !.spine = <<Plain("nav")>> \o book.chapters,
                             !.runs = @ + 1]
       IN  book' = IF book.runs = 0 THEN [b EXCEPT !.first = Document(b)] ELSE b
    /\ UNCHANGED <<PDFS_ENABLED, req, call, clientVars, resolver, norm, trim>>

\* epub.py:50-54: add_chapters is run on the generator once more, with the same
\* trees; its list of chapters starts empty.
AddChaptersAgain ==
    /\ book.pc = "compiled" /\ book.runs < MaxRuns
    /\ book' = [book EXCEPT !.pc = "chapters", !.chapters = <<>>]
    /\ UNCHANGED <<PDFS_ENABLED, req, call, clientVars, resolver, norm, trim>>

\* ------------------------------------------------- paginated generator
\* generators/pdf.py, PDFGenerator, fed as the container generator is.
\* Lines 30-88: the licences, two of them without an image (1, 2) and the others
\* with one; one of each kind here.
Licences == {1, 3}
image_url(copyright) == copyright >= 3

\* pdf.py:16-18: the module's own fetch_image.
pdf_fetch_image == "NotImplementedError"

\* What exiftool may do at the metadata stage: write the tags; run and report a
\* failure, which ExifTool.execute returns like any output; or not start at all,
\* which raises.
ExifOutcomes == {"written", "failed", "not running"}

NoPdf ==
    [pc |-> "idle", data |-> NoStory @@ [copyright |-> 1, avatar |-> FALSE],
     contents |-> <<>>, toc |-> <<>>, book |-> <<>>, rendered |-> FALSE,
     metadata |-> "none", exc |-> "none"]

PdfRaise(exc) == [book EXCEPT !.pc = "raised", !.exc = exc]

\* main.py:118-130 and pdf.py:23-95: the generator is made for a Work, and the
\* trees of its parts that are not deleted are at hand.
PDFGenerator ==
    /\ book = NoPdf
    /\ \E n \in 1..MaxChapters, copyright \in Licences, avatar \in BOOLEAN :
         \E titles \in [1..n -> PartTitles], deleted \in [1..n -> BOOLEAN] :
            LET parts == [i \in 1..n |-> Part(i, titles[i], deleted[i])]
                kept == NotDeleted(parts)
            IN  book' = [NoPdf EXCEPT
                           !.pc = "cover",
                           !.data = Story("WPD Test", parts)
                                      @@ [copyright |-> copyright, avatar |-> avatar],
                           !.contents = [k \in 1..Len(kept) |->
                                            Tree(parts[kept[k]].id, <<>>)]]
    /\ UNCHANGED <<PDFS_ENABLED, req, call, clientVars, resolver, norm, trim>>

\* pdf.py:97-148: the cover and copyright page; the licence's image is fetched.
CoverAndCopyright ==
    /\ book.pc = "cover"
    /\ book' = IF image_url(book.data.copyright) THEN PdfRaise(pdf_fetch_image)
               ELSE [book EXCEPT !.pc = "author"]
    /\ UNCHANGED <<PDFS_ENABLED, req, call, clientVars, resolver, norm, trim>>

\* pdf.py:150-176: the page about the author; the avatar is fetched.
AboutAuthor ==
    /\ book.pc = "author"
    /\ book' = IF book.data.avatar THEN PdfRaise(pdf_fetch_image)
               ELSE [book EXCEPT !.pc = "toc"]
    /\ UNCHANGED <<PDFS_ENABLED, req, call, clientVars, resolver, norm, trim>>

\* pdf.py:178-200, 211-213: one entry of the table of contents per part.
generate_toc ==
    /\ book.pc = "toc"
    /\ book' = [book EXCEPT !.pc = "chapters", !.book = <<>>,
                            !.toc = [k \in 1..Len(book.data.parts) |->
                                        book.data.parts[k].id]]
    /\ UNCHANGED <<PDFS_ENABLED, req, call, clientVars, resolver, norm, trim>>

\* pdf.py:214-218: one turn of the loop; the tree is appended to the book.
AppendContent ==
    /\ book.pc = "chapters"
    /\ LET pairs == zip(book.data.parts, book.contents)
       IN  /\ Len(book.book) < Len(pairs)
           /\ book' = [book EXCEPT !.book = Append(@, pairs[Len(book.book) + 1][2].of)]
    /\ UNCHANGED <<PDFS_ENABLED, req, call, clientVars, resolver, norm, trim>>

\* pdf.py:225-244: the document is rendered to the file.
WritePdf ==
    /\ book.pc = "chapters"
    /\ Len(book.book) = Len(zip(book.data.parts, book.contents))
    /\ \E ok \in BOOLEAN :
         book' = IF ok THEN [book EXCEPT !.pc = "add_metadata", !.rendered = TRUE]
                 ELSE PdfRaise("render")
    /\ UNCHANGED <<PDFS_ENABLED, req, call, clientVars, resolver, norm, trim>>

\* pdf.py:246-279: exiftool is run on the file; what execute returns is dropped.
AddMetadata ==
    /\ book.pc = "add_metadata"
    /\ \E out \in ExifOutcomes :
         book' = CASE out = "written" -> [book EXCEPT !.pc = "compiled", !.metadata = "written"]
                   [] out = "failed" -> [book EXCEPT !.pc = "compiled", !.metadata = "blank"]
                   [] OTHER -> PdfRaise("exiftool")
    /\ UNCHANGED <<PDFS_ENABLED, req, call, clientVars, resolver, norm, trim>>

\* pdf.py:281-286: the file is read into a buffer and closed.
PdfDump ==
    /\ book.pc = "compiled"
    /\ book' = [book EXCEPT !.pc = "dumped"]
    /\ UNCHANGED <<PDFS_ENABLED, req, call, clientVars, resolver, norm, trim>>

\* ------------------------------------------------------ specifications
IdleOrchestrator == PDFS_ENABLED = FALSE /\ req = [r \in Requests |-> Absent]
IdleClient ==
    /\ USE_CACHE = TRUE /\ cache = EmptyCache("fetch_story")
    /\ clock = 0 /\ remote = 1 /\ fetches = NoFetches
IdleResolver == resolver = NoResolver /\ norm = NoNorm /\ trim = NoTrim /\ book = NoBook

InitCache ==
    /\ IdleOrchestrator /\ call = NoCall /\ IdleResolver
    /\ USE_CACHE \in BOOLEAN
    /\ \E fn \in FetchFns : cache = EmptyCache(fn)
    /\ clock = 0 /\ remote = 1 /\ fetches = NoFetches

NextCache ==
    \/ \E c \in Callers : BeginFetch(c) \/ ResponseArrives(c)
    \/ Tick
    \/ RemoteChanges

SpecCache == InitCache /\ [][NextCache]_vars

InitImages ==
    /\ IdleOrchestrator /\ call = NoCall /\ IdleClient
    /\ norm = NoNorm /\ trim = NoTrim /\ book = NoBook
    /\ \E image_urls \in SeqsUpTo(Urls, MaxImageNodes) :
         resolver = NewResolver(image_urls)

NextImages ==
    \/ FirstChunk
    \/ \E i \in 1..MaxImageNodes : FetchImageDone(i)
    \/ GatherReturns
    \/ GatherRaises

SpecImages == InitImages /\ [][NextImages]_vars

InitNormalize ==
    /\ IdleOrchestrator /\ call = NoCall /\ IdleClient
    /\ resolver = NoResolver /\ trim = NoTrim /\ book = NoBook
    /\ norm = [NoNorm EXCEPT !.pc = "markup"]

NextNormalize == ParseBody \/ CleanTree

SpecNormalize == InitNormalize /\ [][NextNormalize]_vars

InitTrim ==
    /\ IdleOrchestrator /\ call = NoCall /\ IdleClient
    /\ resolver = NoResolver /\ norm = NoNorm /\ book = NoBook
    /\ trim = NoTrim

NextTrim == SmartTrim \/ TrimChunk \/ TrimReturn

SpecTrim == InitTrim /\ [][NextTrim]_vars

InitEpub ==
    /\ IdleOrchestrator /\ call = NoCall /\ IdleClient
    /\ resolver = NoResolver /\ norm = NoNorm /\ trim = NoTrim
    /\ book = NoBook

NextEpub ==
    \/ FetchStory \/ ParseTrees \/ EPUBGenerator \/ AddChapter \/ SetSpine
    \/ AddChaptersAgain

SpecEpub == InitEpub /\ [][NextEpub]_vars

InitPdf ==
    /\ IdleOrchestrator /\ call = NoCall /\ IdleClient
    /\ resolver = NoResolver /\ norm = NoNorm /\ trim = NoTrim
    /\ book = NoPdf

NextPdf ==
    \/ PDFGenerator \/ CoverAndCopyright \/ AboutAuthor \/ generate_toc
    \/ AppendContent \/ WritePdf \/ AddMetadata \/ PdfDump

SpecPdf == InitPdf /\ [][NextPdf]_vars

InitRetry ==
    /\ IdleOrchestrator /\ IdleClient /\ IdleResolver
    /\ \E kind \in CallKinds : call = NewCall(kind)

NextRetry == AttemptDone \/ NextAttempt

SpecRetry == InitRetry /\ [][NextRetry]_vars

\* -------------------------------------------------- the orchestrator
Init ==
    /\ call = NoCall /\ IdleClient /\ IdleResolver
    /\ PDFS_ENABLED \in BOOLEAN
    /\ \E m \in Modes, f \in Formats, di \in BOOLEAN, c \in Creds :
         req = [r \in Requests |-> IF r = 1 THEN NewRequest(m, f, di, c) ELSE Absent]

Next ==
    \E r \in Requests :
        \/ HandleDownload(r)
        \/ FetchCookiesDone(r)
        \/ FetchStoryDone(r)
        \/ FetchListDone(r)
        \/ FetchCoverDone(r)
        \/ FetchZipDone(r)
        \/ FetchTreeImagesDone(r)
        \/ FetchAvatarDone(r)
        \/ StreamChunk(r)
        \/ MessagePoller(r)
        \/ Cancelled(r)

Spec == Init /\ [][Next]_vars

\* Several requests in flight at once (test_break.py:13-27 sends thirty story
\* downloads together): every connection has its own handler task and poller.
\* Here one client downloads a story and the other logs in and asks for a format
\* the deployment has switched off.
InitConcurrent ==
    /\ call = NoCall /\ IdleClient /\ IdleResolver
    /\ PDFS_ENABLED = FALSE
    /\ req = [r \in Requests |-> IF r = 1 THEN NewRequest("story", "epub", FALSE, "none")
                                 ELSE NewRequest("story", "pdf", FALSE, "both")]

\* The steps of the handler tasks of these requests.
HandlerTask(r) ==
    \/ HandleDownload(r)
    \/ FetchCookiesDone(r)
    \/ FetchStoryDone(r)
    \/ FetchCoverDone(r)
    \/ FetchZipDone(r)
    \/ StreamChunk(r)

NextConcurrent ==
    \E r \in Requests :
        \/ HandlerTask(r)
        \/ MessagePoller(r)
        \/ Cancelled(r)

\* The event loop resumes every handler task whose awaited call has ended (the
\* calls end: create_book.py:84, max_time=15), and delivers a pending cancel.
SpecConcurrent ==
    /\ InitConcurrent /\ [][NextConcurrent]_vars
    /\ \A r \in Requests : WF_vars(HandlerTask(r)) /\ WF_vars(Cancelled(r))

\* The event loop resumes a response body that has a piece to yield: the sleep of
\* iterfile ends (main.py:301) and the server asks for the next piece.
SpecStream == Spec /\ WF_vars(\E r \in Requests : StreamChunk(r))

\* ================================================================ claims
Last(q) == q[Len(q)]
IsPrefix(p, q) == Len(p) <= Len(q) /\ p = SubSeq(q, 1, Len(p))
Active(r) == req[r].pc # "absent"
SingleWork(r) == Active(r) /\ req[r].mode \in {"story", "part"}
CallEnded == call.phase \in {"returned", "raised"}
\* The last attempt failed: no answer, or an error status that is not the API's
\* not-found answer to a metadata call.
AttemptFailed ==
    /\ call.phase \notin {"idle", "inflight"}
    /\ \/ call.resp.status = 0
       \/ call.resp.status >= 400
            /\ ~(NotFoundAnswer(call.resp)
                   /\ call.kind \in {"fetch_story", "fetch_story_from_partId"})
       \/ call.kind = "fetch_cookies" /\ call.last.exc = "ValueError"

\* ---------------------------------------------------------------- C1
\* C1: when http.disconnect arrives while the request's handler task is unfinished,
\* the task is cancelled (the cancellation is pending and its delivery, which ends
\* the request in Cancelled, is the only step left to the handler), and from the
\* arrival on the request issues no outbound call and runs no normalization or
\* generation step.
C1_Step(r) ==
    /\ (~req[r].disconnected /\ req'[r].disconnected /\ req[r].pc \notin FinalPcs)
           => req'[r].must_cancel
    /\ req[r].disconnected
           => /\ req'[r].calls = req[r].calls
              /\ req'[r].cpu = req[r].cpu
              /\ req'[r].pc \in {req[r].pc, "cancelled"}

C1_State(r) ==
    req[r].disconnected =>
        \/ req[r].pc \in FinalPcs
        \/ req[r].must_cancel /\ ENABLED Cancelled(r)

C1_DisconnectCancels ==
    /\ [](\A r \in Requests : C1_State(r))
    /\ [][\A r \in Requests : C1_Step(r)]_vars

\* A request cancelled by its client's disconnect after its chapters were normalized.
C1_Witness ==
    \E r \in Requests :
        /\ req[r].pc = "cancelled" /\ req[r].disconnected
        /\ \E i \in DOMAIN req[r].trace : req[r].trace[i] = "Normalized"

\* ---------------------------------------------------------------- C2
StageOrder(download_images) ==
    <<"Idle", "MetadataFetched", "ContentFetched", "Normalized">>
        \o (IF download_images THEN <<"ImagesResolved">> ELSE <<>>)
        \o <<"Compiled", "Streaming", "Done">>

TraceInOrder(s) ==
    LET ended == Last(s.trace) \in {"Cancelled", "Failed"}
        body == IF ended THEN SubSeq(s.trace, 1, Len(s.trace) - 1) ELSE s.trace
        order == StageOrder(s.download_images)
    IN  /\ IsPrefix(body, order)
        /\ ended => Len(body) < Len(order)
        /\ (s.pc = "done") <=> (Last(s.trace) = "Done")
        /\ (s.pc = "cancelled") <=> (Last(s.trace) = "Cancelled")
        /\ (s.pc = "failed") <=> (Last(s.trace) = "Failed")

CancelReachable(r) ==
    req[r].pc \notin FinalPcs \cup {"start"} =>
        \/ req[r].must_cancel /\ ENABLED Cancelled(r)
        \/ ~req[r].disconnected
              /\ ENABLED (Poll(r, "http.disconnect") /\ req'[r].must_cancel)

\* C2: the stages a single-work request has entered are always an initial part of
\* Idle, MetadataFetched, ContentFetched, Normalized, (ImagesResolved, there iff
\* images were requested), Compiled, Streaming, Done; nothing follows Done or
\* Cancelled; and wherever an unfinished request waits, its cancellation is
\* pending or its client's disconnect can still cancel it.
C2_StageOrder ==
    \A r \in Requests : SingleWork(r) => TraceInOrder(req[r]) /\ CancelReachable(r)

\* A request with images that went through every stage to Done.
C2_Witness ==
    \E r \in Requests :
        /\ SingleWork(r) /\ req[r].download_images
        /\ req[r].trace = StageOrder(TRUE)

\* ---------------------------------------------------------------- C3
Begins(c) == fetches'[c] # fetches[c] /\ fetches[c].pc # "network"
Answered(c) == fetches'[c] # fetches[c] /\ fetches[c].pc = "network"
ServedFromCache(f) == f.pc = "returned" /\ f.netcalls = 0

C3_State ==
    /\ \A c \in Callers :
          fetches[c].pc # "idle" /\ fetches[c].cookies =>
              /\ fetches[c].backend = "private"
              /\ ~fetches[c].wrote
              /\ ~ServedFromCache(fetches[c])
    /\ \A fn \in DOMAIN cache :
          cache[fn] # NoEntry => cache[fn].payload.view = "public"
    /\ \A c \in Callers :
          fetches[c].pc = "returned" /\ ~fetches[c].cookies =>
              fetches[c].payload.view = "public"

C3_Step ==
    \A c \in Callers :
        fetches'[c] # fetches[c] /\ fetches'[c].cookies =>
            /\ cache' = cache
            /\ fetches'[c].pc = "returned" =>
                  fetches'[c].payload = Payload(fetches[c].fn,
                                                View(fetches[c].fn, TRUE), remote)

\* C3: a fetch_story, fetch_story_from_partId or fetch_story_content_zip made with
\* cookies runs on a cache of its own: it is never answered from the shared cache
\* (what it returns is what the network answered it), it leaves the shared cache
\* as it found it, and so no entry of the shared cache, and nothing a caller
\* without cookies is given, is an answer made for an account.
C3_CredentialedBypassesCache == []C3_State /\ [][C3_Step]_vars

\* A caller with cookies was answered by the network while the shared cache held
\* a live entry for the same request, written by the other caller.
C3_Witness ==
    \E a, b \in Callers :
        /\ fetches[a].wrote /\ cache[fetches[a].fn] = fetches[a].entry
        /\ ~is_expired(fetches[a].entry, clock)
        /\ fetches[b].cookies /\ fetches[b].pc = "returned"
        /\ fetches[b].fn = fetches[a].fn /\ fetches[b].netcalls = 1
        /\ fetches[b].payload.view = "account"

\* ---------------------------------------------------------------- C4
C4_State ==
    \A a, b \in Callers :
        /\ ServedFromCache(fetches[b]) =>
              /\ ~fetches[b].cookies /\ fetches[b].payload.fn = fetches[b].fn
              /\ fetches[b].payload = fetches[b].entry.payload
        /\ fetches[a].wrote /\ ServedFromCache(fetches[b])
              /\ fetches[b].entry = fetches[a].entry
           => fetches[b].payload = fetches[a].payload

C4_Step ==
    \A c \in Callers :
        /\ Begins(c) /\ ~fetches'[c].cookies /\ USE_CACHE =>
              LET entry == cache[fetches'[c].fn]
              IN  IF entry # NoEntry /\ clock <= entry.expires
                  THEN /\ ServedFromCache(fetches'[c])
                       /\ fetches'[c].payload = entry.payload
                       /\ cache' = cache
                  ELSE fetches'[c].pc = "network" /\ fetches'[c].netcalls = 1
        /\ Answered(c) /\ ~fetches[c].cookies /\ USE_CACHE
              /\ fetches'[c].pc = "returned" =>
              cache'[fetches[c].fn] =
                  [payload |-> fetches'[c].payload, expires |-> clock + expire_after]

\* C4: with the cache configured, a fetch without cookies that returns from the
\* network leaves an entry holding what it returned, expiring 12 hours later; a
\* fetch of the same request that begins while that entry is within its 12 hours
\* makes no network call and returns the entry's payload, equal to what the fetch
\* that wrote it returned, whatever the remote serves by then; a fetch that
\* begins when there is no entry or the entry is past its expiry makes a network
\* call.
C4_CacheWithinExpiry == []C4_State /\ [][C4_Step]_vars

\* A caller was served the entry the other caller wrote, after time had passed
\* and the remote content had changed.
C4_Witness ==
    \E a, b \in Callers :
        /\ a # b /\ fetches[a].wrote /\ ServedFromCache(fetches[b])
        /\ fetches[b].entry = fetches[a].entry
        /\ fetches[b].payload.version < remote
        /\ clock > 0 /\ clock < fetches[b].entry.expires

\* ---------------------------------------------------------------- C9
\* C9 as claimed: the resolver ends by returning a list as long as the tree has
\* image nodes, the i-th element the bytes of the i-th source, or None where that
\* fetch failed.
C9_OnePayloadPerNode ==
    resolver.pc \in {"returned", "raised"} =>
        /\ resolver.pc = "returned"
        /\ Len(resolver.images) = Len(resolver.image_urls)
        /\ \A i \in 1..Len(resolver.image_urls) :
              resolver.images[i] = (IF resolver.fetch[i] = "bytes"
                                    THEN Bytes(resolver.image_urls[i]) ELSE None)

\* ---------------------------------------------------------------- C10
BatchOf(i) == (i + batch_size - 1) \div batch_size
InFlight == {i \in 1..Len(resolver.image_urls) : resolver.fetch[i] = "inflight"}

\* C10: at most 3 fetches of the chapter's images are in flight at a time, and a
\* fetch of a later batch has started only when every fetch of the batches before
\* it has ended.
C10_BoundedBatches ==
    /\ Cardinality(InFlight) <= 3
    /\ \A i, j \in 1..Len(resolver.image_urls) :
          BatchOf(i) < BatchOf(j) /\ resolver.fetch[j] # "todo" =>
              resolver.fetch[i] \notin {"todo", "inflight"}

\* The second batch is in flight, the three fetches of the first having ended in
\* another order than they were started in.
C10_Witness ==
    /\ resolver.pc = "gather" /\ resolver.chunk = 2
    /\ resolver.fetch[4] = "inflight"
    /\ Len(resolver.images) = 3
    /\ SubSeq(resolver.order, 1, 3) = <<3, 1, 2>>

\* ---------------------------------------------------------------- C11
Normalized == norm.pc = "normalized"
Wrappers == {w \in 1..Len(norm.body) : norm.body[w].name = "p"}
ChildrenOf(w) == norm.body[w].children
\* The sources of the image nodes of the tree: the standalone ones and those inside
\* a paragraph.
ImageSources ==
    {norm.tree[i].src : i \in {j \in 1..Len(norm.tree) : norm.tree[j].name = "img"}}
        \cup UNION {{norm.tree[i].children[c].src :
                        c \in {d \in 1..Len(norm.tree[i].children) :
                                  norm.tree[i].children[d].name = "img"}} :
                    i \in 1..Len(norm.tree)}

RECURSIVE Flatten(_, _)
\* The places in the source of the nodes of the tree from node i on, in tree order:
\* a paragraph is followed by its children.
Flatten(tree, i) ==
    IF i > Len(tree) THEN <<>>
    ELSE <<tree[i].from>>
           \o [c \in 1..Len(tree[i].children) |-> <<tree[i].from[1], c>>]
           \o Flatten(tree, i + 1)
Emitted == {Flatten(norm.tree, 1)[i] : i \in 1..Len(Flatten(norm.tree, 1))}

\* C11: every image node of a normalized tree has a non-empty source.
C11_ImagesHaveSource ==
    Normalized => \A src \in ImageSources : src \notin {"", "missing"}

\* ---------------------------------------------------------------- C12
\* C12: a paragraph wrapper whose children are all breaks puts no node, paragraph
\* or break, into the normalized tree.
C12_BreakOnlyWrapperAbsent ==
    Normalized =>
        \A w \in Wrappers :
            (/\ ChildrenOf(w) # <<>>
             /\ \A c \in 1..Len(ChildrenOf(w)) : ChildrenOf(w)[c].name = "br")
            => \A i \in 1..Len(norm.tree) : norm.tree[i].from[1] # w

\* ---------------------------------------------------------------- C13
\* C13: every image child of a wrapper is in the normalized tree as a standalone
\* image node with the child's source, width and height, and the node after it is
\* a break.
C13_ImageLiftedThenBreak ==
    Normalized =>
        \A w \in Wrappers : \A c \in 1..Len(ChildrenOf(w)) :
            ChildrenOf(w)[c].name = "img" =>
                \E i \in 1..Len(norm.tree) :
                    /\ norm.tree[i] = ImgNode(w, c, norm.body[w], ChildrenOf(w)[c])
                    /\ i < Len(norm.tree) /\ norm.tree[i + 1].name = "br"

\* ---------------------------------------------------------------- C14
\* C14: a break child with no following sibling, or whose only following sibling
\* is a break, is nowhere in the normalized tree.
C14_RedundantBreakDropped ==
    Normalized =>
        \A w \in Wrappers : \A c \in 1..Len(ChildrenOf(w)) :
            (/\ ChildrenOf(w)[c].name = "br"
             /\ \/ c = Len(ChildrenOf(w))
                \/ c + 1 = Len(ChildrenOf(w)) /\ ChildrenOf(w)[c + 1].name = "br")
            => <<w, c>> \notin Emitted

\* ---------------------------------------------------------------- C15
Before(a, b) == a[1] < b[1] \/ (a[1] = b[1] /\ a[2] < b[2])

\* C15: the nodes of the normalized tree, in tree order, are source elements in
\* document order, none of them twice.
C15_SourceOrderKept ==
    Normalized =>
        LET out == Flatten(norm.tree, 1)
        IN  \A i, j \in 1..Len(out) : i < j => Before(out[i], out[j])

\* ---------------------------------------------------------------- C16
Returned == trim.pc = "returned"

RECURSIVE Joined(_, _)
\* The first k lines, each followed by the marker.
Joined(lines, k) ==
    IF k = 0 THEN <<>> ELSE Joined(lines, k - 1) \o lines[k] \o marker

\* Line k fits when the lines before it, accumulated, and line k stay under the cap.
Fits(lines, k, cap) == Len(Joined(lines, k - 1)) + Len(lines[k]) < cap
\* The number of leading lines that fit.
Leading(lines, cap) ==
    CHOOSE k \in 0..Len(lines) :
        /\ \A j \in 1..k : Fits(lines, j, cap)
        /\ k < Len(lines) => ~Fits(lines, k + 1, cap)

EndsWithMarker(s) ==
    Len(s) >= Len(marker) /\ SubSeq(s, Len(s) - Len(marker) + 1, Len(s)) = marker
WithoutLastMarker(s) ==
    IF EndsWithMarker(s) THEN SubSeq(s, 1, Len(s) - Len(marker)) ELSE s

\* C16: the truncated biography is exactly the leading lines that fit under the
\* cap, all of them, in order (the marker after the last one aside).
C16_LeadingLinesKept ==
    Returned =>
        WithoutLastMarker(trim.to_return)
            = WithoutLastMarker(Joined(trim.chunks, Leading(trim.chunks, trim.max_length)))

\* ---------------------------------------------------------------- C17
StartsWithMarker(s) == Len(s) >= Len(marker) /\ SubSeq(s, 1, Len(marker)) = marker

RECURSIVE OutputLines(_, _)
\* The lines of an output: the pieces between the markers, cur being the piece
\* under construction.
OutputLines(s, cur) ==
    IF s = <<>> THEN {cur}
    ELSE IF StartsWithMarker(s)
         THEN {cur} \cup OutputLines(SubSeq(s, Len(marker) + 1, Len(s)), <<>>)
         ELSE OutputLines(Tail(s), Append(cur, Head(s)))

\* C17: the truncated biography is at most the cap and one marker long, and each
\* of its lines is a whole line of the input.
C17_WholeLinesWithinCap ==
    Returned =>
        /\ Len(trim.to_return) <= trim.max_length + Len(marker)
        /\ \A line \in OutputLines(trim.to_return, <<>>) \ {<<>>} :
              \E j \in 1..Len(trim.chunks) : trim.chunks[j] = line

\* ---------------------------------------------------------------- C18
TreesOf(s) == {s.part_trees[k] : k \in 1..Len(s.part_trees)}
DeletedOf(s) == {i \in 1..Len(s.parts) : s.parts[i].deleted}

DeletedSkipped(s) ==
    /\ TreesOf(s) \cap DeletedOf(s) = {}
    /\ s.images <= Len(s.part_trees)

\* C18: a part flagged deleted is never normalized: no tree is made from it and no
\* image sequence is resolved for it, while the Work's list of parts stays as it
\* was, the deleted part at its index, for as long as the Work is processed.
C18_DeletedPartSkipped ==
    /\ [](\A r \in Requests : DeletedSkipped(req[r]))
    /\ [][\A r \in Requests :
            req[r].sidx = req'[r].sidx => req'[r].parts = req[r].parts]_vars

\* A Work with a deleted part and a live one went through the whole pipeline,
\* images included.
C18_Witness ==
    \E r \in Requests :
        /\ DeletedOf(req[r]) # {}
        /\ req[r].part_trees # <<>>
        /\ req[r].download_images /\ req[r].images = Len(req[r].part_trees)
        /\ req[r].generated >= 1

\* ---------------------------------------------------------------- C19
Compiled == book.pc = "compiled"
\* The entries are chapters of the Work in the order the Work declares them.
InWorkOrder(entries) ==
    /\ \A k \in 1..Len(entries) : entries[k].id \in 1..Len(book.data.parts)
    /\ \A j, k \in 1..Len(entries) : j < k => entries[j].id < entries[k].id

\* C19: in a compiled container the spine lists the cover page first and then the
\* chapters in Work order, and the table of contents lists the chapters in Work
\* order.
C19_CoverThenChapters ==
    Compiled =>
        /\ book.spine # <<>> /\ book.spine[1] = cover_chapter
        /\ InWorkOrder(Tail(book.spine))
        /\ InWorkOrder(book.toc)

\* ---------------------------------------------------------------- C20
Live == NotDeleted(book.body.parts)

\* C20: the metadata fetched are the ones the remote API declares, and the
\* compiled container has one chapter entry per chapter of the Work that has
\* content, titled with that chapter's title, and the Work's title as its title.
C20_EntryPerChapter ==
    /\ book.pc # "idle" => book.data = book.body
    /\ Compiled =>
          /\ book.title = book.body.title
          /\ Len(book.toc) = Len(Live)
          /\ \A k \in 1..Len(book.toc) :
                /\ book.toc[k].content = book.body.parts[Live[k]].id
                /\ book.toc[k].title = book.body.parts[Live[k]].title

\* ---------------------------------------------------------------- C21
StaticPaths == {static(cidx, idx) : cidx \in 0..MaxChapters, idx \in 0..MaxSrcs}
Embedded == {book.images[j] : j \in 1..Len(book.images)}

\* C21: in a compiled container made with images, every image node that had a
\* source refers to a static path of the container under which the container
\* holds what that source answered; made without images, every source is as it
\* was in the tree.
C21_ImagesEmbedded ==
    Compiled =>
        \A k \in 1..Len(book.toc) :
            LET imgs == book.contents[k].imgs
                srcs == book.toc[k].srcs
            IN  IF book.download_images
                THEN \A n \in 1..Len(imgs) :
                        imgs[n] # <<>> =>
                            /\ srcs[n] \in StaticPaths
                            /\ EpubImage(imgs[n], srcs[n]) \in Embedded
                ELSE srcs = imgs

\* ---------------------------------------------------------------- C22
Throttled(s) ==
    \A k \in 1..Len(s.emitted) :
        /\ s.emitted[k].slept
        /\ s.emitted[k].size <= chunk_size
        /\ k < Len(s.emitted) => s.emitted[k].size = chunk_size

ClientFailure(s) ==
    /\ s.pc = "failed"
    /\ s.cause \in {"login", "metadata", "archive", "cover", "avatar", "image"}
    /\ s.exc # "HTTPException"

\* The response the failure is to end in: rejected login 403, missing content 404,
\* overloaded upstream 429, anything else 500.
TypedResponse(s) ==
    CASE s.upstream = 429 -> 429
      [] s.cause = "login" /\ s.upstream # 0 /\ s.upstream # 500 -> 403
      [] s.exc \in {"StoryNotFoundError", "PartNotFoundError"} -> 404
      [] s.upstream \in {400, 404} -> 404
      [] OTHER -> 500

\* C23: every failure of a call to the remote source ends the request in the
\* response of its kind: 404 for missing content, 429 for an overloaded upstream,
\* 403 for a rejected login, 500 for anything else.
C23_ErrorsTyped ==
    \A r \in Requests : ClientFailure(req[r]) => req[r].status = TypedResponse(req[r])

\* ---------------------------------------------------------------- C24
\* C24: a call made for a request with credentials is answered as the account of
\* the cookies sees the content, whichever of the three functions makes it, and
\* nothing of it is written to the shared cache.
C24_CookiesForwarded ==
    \A c \in Callers :
        fetches[c].cookies =>
            /\ ~fetches[c].wrote
            /\ fetches[c].pc = "returned" => fetches[c].payload.view = "account"

\* ---------------------------------------------------------------- C25
\* C25: a paginated document that add_chapters completed, or dump returned, was
\* rendered and then had its metadata written: a failure of the metadata stage
\* never ends in a document.
C25_MetadataOrError ==
    book.pc \in {"compiled", "dumped"} => book.rendered /\ book.metadata = "written"

\* ---------------------------------------------------------------- C26
\* C26: after a second run of the compilation on the same generator its document
\* is the one it was after the first: no item, image, entry of the table of
\* contents or of the spine more.
C26_CompileIdempotent ==
    Compiled /\ book.runs >= 2 => Document(book) = book.first

\* ---------------------------------------------------------------- C27
\* C27: in a list request the members are taken one after the other in list order,
\* each generated document becomes one entry of the archive, the archive that is
\* streamed has one entry per member, and a request that failed returned none.
C27_OneEntryPerMember ==
    \A r \in Requests :
        LET s == req[r]
        IN  s.mode = "list" =>
              /\ s.archived = s.generated
              /\ s.archived <= s.sidx /\ s.sidx <= s.archived + 1
              /\ s.sidx <= s.nstories
              /\ "Streaming" \in {s.trace[k] : k \in 1..Len(s.trace)}
                    => s.archived = s.nstories /\ s.status = 200
              /\ s.pc = "failed" => s.nbytes = 0 /\ s.status # 200

\* A list of two members went through to the end of its stream.
C27_Witness ==
    \E r \in Requests :
        /\ req[r].mode = "list" /\ req[r].pc = "done"
        /\ req[r].nstories >= 2 /\ req[r].archived = req[r].nstories

\* ---------------------------------------------------------------- C29
RECURSIVE TotalBytes(_)
\* The length of the concatenation of the pieces.
TotalBytes(pieces) == IF pieces = <<>> THEN 0 ELSE TotalBytes(Tail(pieces)) + pieces[1].size

\* The pieces are the buffer from its first byte on, with no gap and no overlap.
FromFirstByte(pieces) ==
    \A k \in 1..Len(pieces) :
        /\ pieces[k].size > 0
        /\ pieces[k].at = TotalBytes(SubSeq(pieces, 1, k - 1))

\* The declared Content-Length (main.py:309).
ContentLength(s) == s.nbytes

Delivered(s) ==
    s.status = 200 /\ s.pc \in {"streaming", "done"} =>
        /\ FromFirstByte(s.emitted)
        /\ TotalBytes(s.emitted) <= ContentLength(s)
        /\ s.pc = "done" => TotalBytes(s.emitted) = ContentLength(s) /\ s.sent = ContentLength(s)

FullChunks(s) ==
    \A k \in 1..Len(s.emitted) - 1 : s.emitted[k].size = chunk_size

Terminates(r) ==
    req[r].pc = "streaming" ~> (req[r].pc = "done" \/ req[r].disconnected)

WasCancelled(s) == s.must_cancel \/ "Cancelled" \in {s.trace[k] : k \in 1..Len(s.trace)}

\* The step in which the client of r disconnects leaves every other request as it
\* was: its queue, its handler's position, its pending cancel.
DisconnectIsLocal(r) ==
    ~req[r].disconnected /\ req'[r].disconnected =>
        \A x \in Requests \ {r} : req'[x] = req[x]

\* C30: with several requests in flight, a handler task is cancelled only by the
\* disconnect of its own client, the disconnect of one client leaves the queue and
\* the handler of every other request alone, and every request whose client stays
\* connected ends with a response of its own.
C30_CancelIsPerRequest ==
    /\ [](\A r \in Requests : WasCancelled(req[r]) => req[r].disconnected)
    /\ [][\A r \in Requests : DisconnectIsLocal(r)]_vars
    /\ \A r \in Requests :
          req[r].pc = "start" ~> (req[r].pc \in {"done", "failed"} \/ req[r].disconnected)

\* One request cancelled by its client's disconnect while it waited, the other
\* streamed to its end to a client that stayed connected.
C30_Witness ==
    \E r, x \in Requests :
        /\ req[r].pc = "cancelled" /\ req[r].disconnected
        /\ req[x].pc = "done" /\ ~req[x].disconnected /\ req[x].status = 200
        /\ req[x].queue # <<>> /\ Len(req[x].emitted) = MaxChunks

\* ---------------------------------------------------------------- C28
\* C28: in a compiled container every chapter entry carries the id and the title
\* of the part its tree was made from, and the entries are in the order of the
\* Work.
C28_EntryPairsOwnTree ==
    Compiled /\ book.runs = 1 =>
        /\ InWorkOrder(book.toc)
        /\ \A k \in 1..Len(book.toc) :
              LET entry == book.toc[k]
              IN  /\ entry.content = book.contents[k].of
                  /\ entry.id = entry.content
                  /\ entry.title = book.data.parts[entry.content].title

\* ---------------------------------------------------------------- C5
\* C5 as claimed: a call of any kind whose attempt fails is re-attempted, and ends
\* in failure only once the time elapsed has passed the 15-second ceiling.
C5_EveryCallRetried ==
    CallEnded /\ AttemptFailed => call.elapsed >= max_time

\* ---------------------------------------------------------------- C6
\* C6: the API's not-found answer to a metadata call (400 with the error code of
\* the story or of the part) is not retried: the call raises StoryNotFoundError or
\* PartNotFoundError on that attempt (the only attempt, when it is the first
\* answer), no attempt follows, and the client's response is 404.
C6_NotFoundNotRetried ==
    (/\ call.kind \in {"fetch_story", "fetch_story_from_partId"}
     /\ call.phase \notin {"idle", "inflight"}
     /\ NotFoundAnswer(call.resp))
    => /\ call.phase = "raised"
       /\ call.last.exc = (IF call.kind = "fetch_story" THEN "StoryNotFoundError"
                           ELSE "PartNotFoundError")
       /\ call.client = 404
       /\ ~ENABLED NextRetry
       /\ call.elapsed = 0 => call.tries = 1

\* A part lookup was answered not-found on its first attempt.
C6_Witness ==
    /\ call.kind = "fetch_story_from_partId" /\ call.phase = "raised"
    /\ NotFoundAnswer(call.resp) /\ call.tries = 1 /\ call.client = 404

\* ---------------------------------------------------------------- C7
\* C7: with image resolution requested, no failure of an image fetch (an HTTP error
\* status or a network error) ends the request.
C7_ImageFailureAbsorbed ==
    \A r \in Requests :
        Active(r) /\ req[r].download_images => req[r].cause # "image"

\* ---------------------------------------------------------------- C8
NoBytesFailure(s) ==
    s.pc = "failed" /\ s.exc = "HTTPException" /\ s.cause \in {"cover", "avatar"}

====
